---- MODULE Spec2Model ----
(***************************************************************************)
(* Sparse single-variable polynomials (PolynomialSolver.py): the term      *)
(* list of each Polynomial object, the invariant-preserving insert, and    *)
(* the arithmetic built on it (add, neg, sub, mul, divmod, truediv).       *)
(*                                                                         *)
(* A Polynomial object is a record [head, size]: head is the linked list   *)
(* of Term nodes read from _head along .next, as a sequence of             *)
(* [coeff, degree] records, and size is _size.  Objects live in a heap     *)
(* (a sequence, an object's id is its index); the methods are operators    *)
(* from a machine [heap, log] to a machine, so that a method writes to     *)
(* the object it names and to no other.  log records every call of         *)
(* insert_term_invariant made by the running method.                       *)
(***************************************************************************)
EXTENDS Integers, Sequences, FiniteSets, TLC

\* ---------------------------------------------------------------- bounds

\* Largest magnitude of a coefficient the client passes to the constructor.
MaxCoeff == 1
\* Largest degree the client passes to the constructor.
MaxDeg == 2
\* Longest list of (coeff, degree) tuples the client passes.
MaxLen == 3
\* How many polynomials the client builds from tuples.
MaxInputs == 2
\* How many public calls (constructor or operator) the client makes.
MaxCalls == 3

\* ---------------------------------------------------------- coefficients
\* A coefficient is a Python int (frac = FALSE, den = 1) or a
\* fractions.Fraction (frac = TRUE), kept in lowest terms with den > 0.

Abs(n) == IF n < 0 THEN -n ELSE n

RECURSIVE gcd(_, _)
gcd(a, b) == IF b = 0 THEN a ELSE gcd(b, a % b)

\* An int literal or int value.
PyInt(n) == [num |-> n, den |-> 1, frac |-> FALSE]

\* Fraction(n, d), d # 0: sign carried by the numerator, lowest terms.
Normalized(n, d) ==
    LET g == gcd(Abs(n), Abs(d))
        s == IF d < 0 THEN -1 ELSE 1
    IN  [num |-> (s * n) \div g, den |-> (s * d) \div g, frac |-> TRUE]

\* Fraction(c) of an int or of a Fraction.
Fraction(c) == [num |-> c.num, den |-> c.den, frac |-> TRUE]

\* x + y: int + int is an int, anything else a Fraction.
CAdd(x, y) ==
    IF ~x.frac /\ ~y.frac
    THEN PyInt(x.num + y.num)
    ELSE Normalized(x.num * y.den + y.num * x.den, x.den * y.den)

\* x * y
CMul(x, y) ==
    IF ~x.frac /\ ~y.frac
    THEN PyInt(x.num * y.num)
    ELSE Normalized(x.num * y.num, x.den * y.den)

\* -x
CNeg(x) == [x EXCEPT !.num = -x.num]

\* The mutant of CDiv: "*" for "/".
CDivMultiplies(x, y) == Normalized(x.num * y.num, x.den * y.den)

\* Fraction x / Fraction y, y # 0
CDiv(x, y) == Normalized(x.num * y.den, x.den * y.num)

\* c == 0
CIsZero(c) == c.num = 0

\* ------------------------------------------------------------ the machine

Term(coefficient, degree) == [coeff |-> coefficient, degree |-> degree]

EmptyPolynomial == [head |-> <<>>, size |-> 0]

\* Polynomial(): a fresh object with _head None and _size 0; its id is the
\* new length of the heap.
NewPolynomial(m) == [m EXCEPT !.heap = Append(@, EmptyPolynomial)]

\* The id of the object the last call of NewPolynomial made.
Newest(m) == Len(m.heap)

is_zero(p) == p.head = <<>>

degree(p) == IF p.head = <<>> THEN 0 ELSE p.head[1].degree

leading_term(p) ==
    IF p.head = <<>> THEN <<PyInt(0), 0>>
    ELSE <<p.head[1].coeff, p.head[1].degree>>

\* The walk "while cur and cur.degree > degree": the index of cur when it
\* stops, Len + 1 for cur = None; prev is the index before it.
RECURSIVE Walk(_, _, _)
Walk(terms, deg, cur) ==
    IF cur <= Len(terms) /\ terms[cur].degree > deg
    THEN Walk(terms, deg, cur + 1)
    ELSE cur

RemoveAt(s, k) == SubSeq(s, 1, k - 1) \o SubSeq(s, k + 1, Len(s))

InsertAt(s, k, x) == SubSeq(s, 1, k - 1) \o <<x>> \o SubSeq(s, k, Len(s))

\* The mutant of insert_on: a merge that keeps the term when the sum is zero.
insert_on_keep_zero(p, coeff, deg) ==
    IF CIsZero(coeff) THEN p
    ELSE IF p.head = <<>> \/ deg > p.head[1].degree
    THEN [head |-> <<Term(coeff, deg)>> \o p.head, size |-> p.size + 1]
    ELSE LET cur == Walk(p.head, deg, 1) IN
         IF cur <= Len(p.head) /\ p.head[cur].degree = deg
         THEN [p EXCEPT !.head[cur].coeff = CAdd(@, coeff)]
         ELSE [head |-> InsertAt(p.head, cur, Term(coeff, deg)),
               size |-> p.size + 1]

\* The mutant of insert_on: a merge that overwrites the coefficient.
insert_on_overwrite(p, coeff, deg) ==
    IF CIsZero(coeff) THEN p
    ELSE IF p.head = <<>> \/ deg > p.head[1].degree
    THEN [head |-> <<Term(coeff, deg)>> \o p.head, size |-> p.size + 1]
    ELSE LET cur == Walk(p.head, deg, 1) IN
         IF cur <= Len(p.head) /\ p.head[cur].degree = deg
         THEN [p EXCEPT !.head[cur].coeff = coeff]
         ELSE [head |-> InsertAt(p.head, cur, Term(coeff, deg)),
               size |-> p.size + 1]

\* _insert_term_invariant on the object value p.
insert_on(p, coeff, deg) ==
    IF CIsZero(coeff) THEN p
    ELSE IF p.head = <<>> \/ deg > p.head[1].degree
    THEN [head |-> <<Term(coeff, deg)>> \o p.head, size |-> p.size + 1]
    ELSE LET cur == Walk(p.head, deg, 1) IN
         IF cur <= Len(p.head) /\ p.head[cur].degree = deg
         THEN LET sum == CAdd(p.head[cur].coeff, coeff) IN
              IF CIsZero(sum)
              THEN [head |-> RemoveAt(p.head, cur), size |-> p.size - 1]
              ELSE [p EXCEPT !.head[cur].coeff = sum]
         ELSE [head |-> InsertAt(p.head, cur, Term(coeff, deg)),
               size |-> p.size + 1]

\* self._insert_term_invariant(coeff, degree): writes object self, and
\* records the call.
insert_term_invariant(m, self, coeff, deg) ==
    LET pre  == m.heap[self]
        post == insert_on(pre, coeff, deg)
    IN  [heap |-> [m.heap EXCEPT ![self] = post],
         log  |-> m.log \cup {[pre |-> pre, coeff |-> coeff,
                               degree |-> deg, post |-> post]}]

\* ------------------------------------------------------------ the methods
\* Each method takes the machine and the ids of its operands and returns
\* the machine after the call; the object it returns is Newest of that.

\* __init__: "for c, d in tuples: self._insert_term_invariant(c, d)".
RECURSIVE init_loop(_, _, _, _)
init_loop(m, self, tuples, k) ==
    IF k <= Len(tuples)
    THEN init_loop(insert_term_invariant(m, self, tuples[k][1], tuples[k][2]),
                   self, tuples, k + 1)
    ELSE m

\* Polynomial(tuples) and from_tuples(tuples).
from_tuples(m, tuples) ==
    LET m1 == NewPolynomial(m) IN
    IF tuples = <<>> THEN m1 ELSE init_loop(m1, Newest(m1), tuples, 1)

\* __add__, third loop: "while b is not None".
RECURSIVE add_rest_b(_, _, _, _)
add_rest_b(m, res, other, b) ==
    LET B == m.heap[other].head IN
    IF b <= Len(B)
    THEN add_rest_b(insert_term_invariant(m, res, B[b].coeff, B[b].degree),
                    res, other, b + 1)
    ELSE m

\* __add__, second loop: "while a is not None".
RECURSIVE add_rest_a(_, _, _, _, _, _)
add_rest_a(m, res, self, other, a, b) ==
    LET A == m.heap[self].head IN
    IF a <= Len(A)
    THEN add_rest_a(insert_term_invariant(m, res, A[a].coeff, A[a].degree),
                    res, self, other, a + 1, b)
    ELSE add_rest_b(m, res, other, b)

\* The mutant of add_merge: on equal degrees self's term is emitted as it
\* is and other's term is skipped.
RECURSIVE add_merge_first_loop_keeps_a(_, _, _, _, _, _)
add_merge_first_loop_keeps_a(m, res, self, other, a, b) ==
    LET A == m.heap[self].head
        B == m.heap[other].head
    IN
    IF a <= Len(A) /\ b <= Len(B)
    THEN IF A[a].degree > B[b].degree
         THEN add_merge_first_loop_keeps_a(
                  insert_term_invariant(m, res, A[a].coeff, A[a].degree),
                  res, self, other, a + 1, b)
         ELSE IF A[a].degree < B[b].degree
         THEN add_merge_first_loop_keeps_a(
                  insert_term_invariant(m, res, B[b].coeff, B[b].degree),
                  res, self, other, a, b + 1)
         ELSE add_merge_first_loop_keeps_a(
                  insert_term_invariant(m, res, A[a].coeff, A[a].degree),
                  res, self, other, a + 1, b + 1)
    ELSE add_rest_a(m, res, self, other, a, b)

\* __add__, first loop: "while a is not None and b is not None".
RECURSIVE add_merge(_, _, _, _, _, _)
add_merge(m, res, self, other, a, b) ==
    LET A == m.heap[self].head
        B == m.heap[other].head
    IN
    IF a <= Len(A) /\ b <= Len(B)
    THEN IF A[a].degree > B[b].degree
         THEN add_merge(insert_term_invariant(m, res, A[a].coeff, A[a].degree),
                        res, self, other, a + 1, b)
         ELSE IF A[a].degree < B[b].degree
         THEN add_merge(insert_term_invariant(m, res, B[b].coeff, B[b].degree),
                        res, self, other, a, b + 1)
         ELSE LET s == CAdd(A[a].coeff, B[b].coeff) IN
              add_merge(IF ~CIsZero(s)
                        THEN insert_term_invariant(m, res, s, A[a].degree)
                        ELSE m,
                        res, self, other, a + 1, b + 1)
    ELSE add_rest_a(m, res, self, other, a, b)

\* __add__
add(m, self, other) ==
    LET m1 == NewPolynomial(m) IN add_merge(m1, Newest(m1), self, other, 1, 1)

\* __mul__, inner loop over other's terms for the term a of self.
RECURSIVE mul_inner(_, _, _, _, _, _)
mul_inner(m, res, self, other, a, b) ==
    LET A == m.heap[self].head
        B == m.heap[other].head
    IN
    IF b <= Len(B)
    THEN mul_inner(insert_term_invariant(m, res, CMul(A[a].coeff, B[b].coeff),
                                         A[a].degree + B[b].degree),
                   res, self, other, a, b + 1)
    ELSE m

\* The mutant of mul_outer: the inner loop starts at other's second term.
RECURSIVE mul_outer_skips_head(_, _, _, _, _)
mul_outer_skips_head(m, res, self, other, a) ==
    IF a <= Len(m.heap[self].head)
    THEN mul_outer_skips_head(mul_inner(m, res, self, other, a, 2),
                              res, self, other, a + 1)
    ELSE m

\* __mul__, outer loop over self's terms.
RECURSIVE mul_outer(_, _, _, _, _)
mul_outer(m, res, self, other, a) ==
    IF a <= Len(m.heap[self].head)
    THEN mul_outer(mul_inner(m, res, self, other, a, 1), res, self, other, a + 1)
    ELSE m

\* __mul__
mul(m, self, other) ==
    LET m1 == NewPolynomial(m) IN mul_outer(m1, Newest(m1), self, other, 1)

\* __neg__, the loop over self's nodes.
RECURSIVE neg_loop(_, _, _, _)
neg_loop(m, res, self, node) ==
    LET A == m.heap[self].head IN
    IF node <= Len(A)
    THEN neg_loop(insert_term_invariant(m, res, CNeg(A[node].coeff), A[node].degree),
                  res, self, node + 1)
    ELSE m

\* The mutant of neg: the signs are flipped in self, and self is copied.
neg_in_place(m, self) ==
    LET flipped == [k \in 1..Len(m.heap[self].head) |->
                      [m.heap[self].head[k] EXCEPT !.coeff = CNeg(@)]]
        m1 == [m EXCEPT !.heap[self].head = flipped]
    IN  [m1 EXCEPT !.heap = Append(@, m1.heap[self])]

\* __neg__
neg(m, self) ==
    LET m1 == NewPolynomial(m) IN neg_loop(m1, Newest(m1), self, 1)

\* __sub__: self + (-other)
sub(m, self, other) ==
    LET m1 == neg(m, other) IN add(m1, self, Newest(m1))

\* _mul_monomial, the loop over self's nodes.
RECURSIVE mul_monomial_loop(_, _, _, _, _, _)
mul_monomial_loop(m, res, self, coeff, deg, node) ==
    LET A == m.heap[self].head IN
    IF node <= Len(A)
    THEN mul_monomial_loop(
             insert_term_invariant(m, res,
                 CMul(Fraction(A[node].coeff), Fraction(coeff)),
                 A[node].degree + deg),
             res, self, coeff, deg, node + 1)
    ELSE m

\* _mul_monomial
mul_monomial(m, self, coeff, deg) ==
    LET m1 == NewPolynomial(m) IN
    mul_monomial_loop(m1, Newest(m1), self, coeff, deg, 1)

\* The mutant of as_fraction_loop: "while node.next", which stops before
\* the last node.
RECURSIVE as_fraction_loop_stops_early(_, _, _, _)
as_fraction_loop_stops_early(m, res, self, node) ==
    LET A == m.heap[self].head IN
    IF node < Len(A)
    THEN as_fraction_loop_stops_early(
             insert_term_invariant(m, res, Fraction(A[node].coeff), A[node].degree),
             res, self, node + 1)
    ELSE m

\* _as_fraction_poly, the loop over self's nodes.
RECURSIVE as_fraction_loop(_, _, _, _)
as_fraction_loop(m, res, self, node) ==
    LET A == m.heap[self].head IN
    IF node <= Len(A)
    THEN as_fraction_loop(
             insert_term_invariant(m, res, Fraction(A[node].coeff), A[node].degree),
             res, self, node + 1)
    ELSE m

\* _as_fraction_poly
as_fraction_poly(m, self) ==
    LET m1 == NewPolynomial(m) IN as_fraction_loop(m1, Newest(m1), self, 1)

\* __divmod__, "Start with r = dividend": the loop over dividend's nodes.
RECURSIVE divmod_copy_loop(_, _, _, _)
divmod_copy_loop(m, r, dividend, node) ==
    LET A == m.heap[dividend].head IN
    IF node <= Len(A)
    THEN divmod_copy_loop(
             insert_term_invariant(m, r, A[node].coeff, A[node].degree),
             r, dividend, node + 1)
    ELSE m

\* The mutant of divmod_rejects: no test of the divisor.
divmod_rejects_nothing(m, self, other) == FALSE

\* __divmod__: "if other.is_zero(): raise ZeroDivisionError".
divmod_rejects(m, self, other) == is_zero(m.heap[other])

\* __divmod__ from its first line to the head of the long-division loop,
\* for a divisor that passed the test: the machine and the locals.
divmod_enter(m, self, other) ==
    LET m1 == as_fraction_poly(m, self)
        m2 == as_fraction_poly(m1, other)
        m3 == NewPolynomial(m2)
        m4 == NewPolynomial(m3)
        m5 == divmod_copy_loop(m4, Newest(m4), Newest(m1), 1)
        lead == leading_term(m5.heap[Newest(m2)])
    IN  [m |-> m5, dividend |-> Newest(m1), divisor |-> Newest(m2),
         q |-> Newest(m3), r |-> Newest(m4),
         d_lead_c |-> lead[1], d_lead_deg |-> lead[2]]

\* The mutant of divmod_continues: ">" for ">=".
divmod_continues_strict(m, r, d_lead_deg) ==
    (~is_zero(m.heap[r])) /\ (degree(m.heap[r]) > d_lead_deg)

\* The test of the long-division loop.
divmod_continues(m, r, d_lead_deg) ==
    (~is_zero(m.heap[r])) /\ (degree(m.heap[r]) >= d_lead_deg)

\* One pass of the long-division loop, for d_lead_c # 0: the machine after
\* it and the object r is bound to.
divmod_body(m, q, r, divisor, d_lead_c, d_lead_deg) ==
    LET r_lead     == leading_term(m.heap[r])
        factor_c   == CDiv(Fraction(r_lead[1]), Fraction(d_lead_c))
        factor_deg == r_lead[2] - d_lead_deg
        m1 == insert_term_invariant(m, q, factor_c, factor_deg)
        m2 == mul_monomial(m1, divisor, factor_c, factor_deg)
        m3 == sub(m2, r, Newest(m2))
    IN  [m |-> m3, r |-> Newest(m3)]

\* The mutant of truediv_exact: the quotient is tested, not the remainder.
truediv_tests_quotient(m, q, r) == is_zero(m.heap[q])

\* __truediv__: "if r.is_zero(): return q".
truediv_exact(m, q, r) == is_zero(m.heap[r])

\* One whole run of the long-division loop from the locals fr, as divmod
\* makes it between its setup and its return.
RECURSIVE divmod_loop(_)
divmod_loop(fr) ==
    IF divmod_continues(fr.m, fr.r, fr.d_lead_deg)
    THEN LET s == divmod_body(fr.m, fr.q, fr.r, fr.divisor,
                              fr.d_lead_c, fr.d_lead_deg)
         IN  divmod_loop([fr EXCEPT !.m = s.m, !.r = s.r])
    ELSE fr

\* ------------------------------------------------------------- the client
\* heap    every Polynomial object made so far, the methods' temporaries too
\* log     the calls of _insert_term_invariant the last step made
\* refs    the ids of the objects the client holds, in the order returned
\* frame   the locals of the running call: of __init__ (pc = "init", self
\*         the object under construction) or of __divmod__ (pc = "loop"),
\*         pc = "idle" when none runs; iters counts the passes of its loop
\*         and r_was is the object r was bound to before the last pass
\* last    the last public call: its name, its operands and what they held
\*         when it was made, the sum of the coefficients given to the
\*         constructor for each degree, its result and its exception
\* ncalls  the public calls made; ninputs  those of the constructor
VARIABLES heap, log, refs, frame, last, ncalls, ninputs

vars == <<heap, log, refs, frame, last, ncalls, ninputs>>

Coeffs == (-MaxCoeff)..MaxCoeff

Degrees == 0..MaxDeg

\* The usage example in the class body: p and q.
ExampleLists ==
    { << <<PyInt(3), 3>>, <<PyInt(-2), 2>>, <<PyInt(1), 0>> >>,
      << <<PyInt(1), 1>>, <<PyInt(-1), 0>> >> }

Range(s) == {s[k] : k \in 1..Len(s)}

IdleFrame ==
    [pc |-> "idle", caller |-> "", self |-> 0, other |-> 0, dividend |-> 0,
     divisor |-> 0, q |-> 0, r |-> 0, d_lead_c |-> PyInt(0), d_lead_deg |-> 0,
     iters |-> 0, r_was |-> 0]

\* Exact rationals <<numerator, denominator>> for the statements, compared
\* by cross-multiplication.

Rat(c) == <<c.num, c.den>>

RAdd(x, y) == <<x[1] * y[2] + y[1] * x[2], x[2] * y[2]>>

RMul(x, y) == <<x[1] * y[1], x[2] * y[2]>>

REq(x, y) == x[1] * y[2] = y[1] * x[2]

RIsZero(x) == x[1] = 0

RECURSIVE RSum(_)
RSum(s) == IF s = <<>> THEN <<0, 1>> ELSE RAdd(Head(s), RSum(Tail(s)))

NothingGiven == [d \in Degrees |-> <<0, 1>>]

\* The sum of the coefficients a list of tuples gives for each degree.
GivenBy(tuples) ==
    [d \in Degrees \cup {tuples[k][2] : k \in 1..Len(tuples)} |->
        RSum([k \in 1..Len(tuples) |->
                IF tuples[k][2] = d THEN Rat(tuples[k][1]) ELSE <<0, 1>>])]

Call(op, args, given, out, err) ==
    [op |-> op, args |-> args, before |-> [k \in 1..Len(args) |-> heap[args[k]]],
     given |-> given, out |-> out, err |-> err]

Init ==
    /\ heap = <<>>
    /\ log = {}
    /\ refs = <<>>
    /\ frame = IdleFrame
    /\ last = [op |-> "", args |-> <<>>, before |-> <<>>, given |-> NothingGiven,
               out |-> <<>>, err |-> "none"]
    /\ ncalls = 0
    /\ ninputs = 0

Ready == frame.pc = "idle" /\ ncalls < MaxCalls

\* The client receives the newest object of m as the result of the call.
Returns(m, op, args, given) ==
    /\ heap' = m.heap
    /\ log' = m.log
    /\ refs' = Append(refs, Newest(m))
    /\ last' = Call(op, args, given, <<Newest(m)>>, "none")
    /\ ncalls' = ncalls + 1
    /\ UNCHANGED frame

Now == [heap |-> heap, log |-> {}]

\* The client builds its inputs first and operates on them afterwards.
Building == Ready /\ ncalls = ninputs /\ ninputs < MaxInputs

\* Polynomial.from_tuples(tuples), the whole call for a given list.
FromTuples(tuples) ==
    /\ Building
    /\ ninputs' = ninputs + 1
    /\ Returns(from_tuples(Now, tuples), "from_tuples", <<>>, GivenBy(tuples))

\* Polynomial.from_tuples(tuples) for any list of at most MaxLen tuples,
\* pass by pass.  InitCall: __init__ up to the loop over the tuples.
InitCall ==
    /\ Building
    /\ heap' = NewPolynomial(Now).heap
    /\ log' = {}
    /\ frame' = [IdleFrame EXCEPT !.pc = "init", !.self = Newest(NewPolynomial(Now))]
    /\ last' = Call("from_tuples", <<>>, NothingGiven, <<>>, "none")
    /\ ncalls' = ncalls + 1
    /\ ninputs' = ninputs + 1
    /\ UNCHANGED refs

\* One pass of "for c, d in tuples", the next tuple being (c, d).
InitInsert(c, d) ==
    /\ frame.pc = "init"
    /\ frame.iters < MaxLen
    /\ LET m == insert_term_invariant(Now, frame.self, PyInt(c), d) IN
          /\ heap' = m.heap
          /\ log' = m.log
    /\ frame' = [frame EXCEPT !.iters = @ + 1]
    /\ last' = [last EXCEPT !.given[d] = RAdd(@, <<c, 1>>)]
    /\ UNCHANGED <<refs, ncalls, ninputs>>

\* The tuples are exhausted: the constructor returns the object.
InitReturn ==
    /\ frame.pc = "init"
    /\ refs' = Append(refs, frame.self)
    /\ last' = [last EXCEPT !.out = <<frame.self>>]
    /\ frame' = IdleFrame
    /\ log' = {}
    /\ UNCHANGED <<heap, ncalls, ninputs>>

\* a + b
Add(a, b) ==
    /\ Ready
    /\ Returns(add(Now, a, b), "add", <<a, b>>, NothingGiven)
    /\ UNCHANGED ninputs

\* a - b
Sub(a, b) ==
    /\ Ready
    /\ Returns(sub(Now, a, b), "sub", <<a, b>>, NothingGiven)
    /\ UNCHANGED ninputs

\* a * b
Mul(a, b) ==
    /\ Ready
    /\ Returns(mul(Now, a, b), "mul", <<a, b>>, NothingGiven)
    /\ UNCHANGED ninputs

\* -a
Neg(a) ==
    /\ Ready
    /\ Returns(neg(Now, a), "neg", <<a>>, NothingGiven)
    /\ UNCHANGED ninputs

\* divmod(a, b), or a / b up to its call of divmod: the test of the divisor
\* and the setup, up to the head of the long-division loop.
DivmodCall(a, b, caller) ==
    /\ Ready
    /\ ncalls' = ncalls + 1
    /\ UNCHANGED <<refs, ninputs>>
    /\ IF divmod_rejects(Now, a, b)
       THEN /\ last' = Call(caller, <<a, b>>, NothingGiven, <<>>, "ZeroDivisionError")
            /\ log' = {}
            /\ UNCHANGED <<heap, frame>>
       ELSE LET e == divmod_enter(Now, a, b) IN
            /\ heap' = e.m.heap
            /\ log' = e.m.log
            /\ last' = Call(caller, <<a, b>>, NothingGiven, <<>>, "none")
            /\ frame' = [pc |-> "loop", caller |-> caller, self |-> a,
                         other |-> b, dividend |-> e.dividend,
                         divisor |-> e.divisor, q |-> e.q, r |-> e.r,
                         d_lead_c |-> e.d_lead_c, d_lead_deg |-> e.d_lead_deg,
                         iters |-> 0, r_was |-> 0]

Divmod(a, b) == DivmodCall(a, b, "divmod")

Truediv(a, b) == DivmodCall(a, b, "truediv")

\* One pass of the long-division loop.  Fraction division raises
\* ZeroDivisionError for a zero d_lead_c.
DivmodLoop ==
    /\ frame.pc = "loop"
    /\ divmod_continues(Now, frame.r, frame.d_lead_deg)
    /\ UNCHANGED <<refs, ncalls, ninputs>>
    /\ IF CIsZero(frame.d_lead_c)
       THEN /\ last' = [last EXCEPT !.err = "ZeroDivisionError"]
            /\ frame' = IdleFrame
            /\ log' = {}
            /\ UNCHANGED heap
       ELSE LET s == divmod_body(Now, frame.q, frame.r, frame.divisor,
                                 frame.d_lead_c, frame.d_lead_deg) IN
            /\ heap' = s.m.heap
            /\ log' = s.m.log
            /\ frame' = [frame EXCEPT !.r = s.r, !.iters = @ + 1,
                                      !.r_was = frame.r]
            /\ UNCHANGED last

\* divmod's "return q, r".
DivmodReturn ==
    /\ frame.pc = "loop"
    /\ ~divmod_continues(Now, frame.r, frame.d_lead_deg)
    /\ frame.caller = "divmod"
    /\ refs' = refs \o <<frame.q, frame.r>>
    /\ last' = [last EXCEPT !.out = <<frame.q, frame.r>>]
    /\ frame' = IdleFrame
    /\ log' = {}
    /\ UNCHANGED <<heap, ncalls, ninputs>>

\* __truediv__ after divmod returned, remainder zero: "return q".
TruedivReturn ==
    /\ frame.pc = "loop"
    /\ ~divmod_continues(Now, frame.r, frame.d_lead_deg)
    /\ frame.caller = "truediv"
    /\ truediv_exact(Now, frame.q, frame.r)
    /\ refs' = Append(refs, frame.q)
    /\ last' = [last EXCEPT !.out = <<frame.q>>]
    /\ frame' = IdleFrame
    /\ log' = {}
    /\ UNCHANGED <<heap, ncalls, ninputs>>

\* __truediv__ after divmod returned, remainder not zero: "raise ValueError".
TruedivRaise ==
    /\ frame.pc = "loop"
    /\ ~divmod_continues(Now, frame.r, frame.d_lead_deg)
    /\ frame.caller = "truediv"
    /\ ~truediv_exact(Now, frame.q, frame.r)
    /\ last' = [last EXCEPT !.err = "ValueError"]
    /\ frame' = IdleFrame
    /\ log' = {}
    /\ UNCHANGED <<heap, refs, ncalls, ninputs>>

\* The operators, on the objects the client holds (every operand is a
\* Polynomial, so the isinstance tests pass).
Operate ==
    \/ \E a \in Range(refs), b \in Range(refs) : Add(a, b)
    \/ \E a \in Range(refs), b \in Range(refs) : Sub(a, b)
    \/ \E a \in Range(refs), b \in Range(refs) : Mul(a, b)
    \/ \E a \in Range(refs) : Neg(a)
    \/ \E a \in Range(refs), b \in Range(refs) : Divmod(a, b)
    \/ \E a \in Range(refs), b \in Range(refs) : Truediv(a, b)
    \/ DivmodLoop
    \/ DivmodReturn
    \/ TruedivReturn
    \/ TruedivRaise

Next ==
    \/ InitCall
    \/ \E c \in Coeffs, d \in Degrees : InitInsert(c, d)
    \/ InitReturn
    \/ Operate

Spec == Init /\ [][Next]_vars

\* The client of the usage example: it builds p and q and operates on them.
NextExample ==
    \/ \E tuples \in ExampleLists : FromTuples(tuples)
    \/ Operate

SpecExample == Init /\ [][NextExample]_vars

\* ------------------------------------------------------------ properties
TermsOfDegree(terms, d) == SelectSeq(terms, LAMBDA t : t.degree = d)

TermsNotOfDegree(terms, d) == SelectSeq(terms, LAMBDA t : t.degree # d)

\* The coefficient of x^d in p, 0 when p holds no such term.
Coef(p, d) ==
    LET at == TermsOfDegree(p.head, d)
    IN  RSum([k \in 1..Len(at) |-> Rat(at[k].coeff)])

\* The sum of ca * cb over the terms of a and b whose degrees add up to d.
ProductCoef(a, b, d) ==
    LET n == Len(a.head)
        w == Len(b.head)
        A(k) == a.head[((k - 1) \div w) + 1]
        B(k) == b.head[((k - 1) % w) + 1]
    IN  IF w = 0 THEN <<0, 1>>
        ELSE RSum([k \in 1..(n * w) |->
                     IF A(k).degree + B(k).degree = d
                     THEN RMul(Rat(A(k).coeff), Rat(B(k).coeff))
                     ELSE <<0, 1>>])

DegreesOf(p) == {p.head[k].degree : k \in 1..Len(p.head)}

StrictlyDescending(terms) ==
    \A k \in 1..(Len(terms) - 1) : terms[k].degree > terms[k + 1].degree

NoDuplicateDegree(terms) ==
    \A j, k \in 1..Len(terms) : terms[j].degree = terms[k].degree => j = k

NoZeroCoefficient(terms) ==
    \A k \in 1..Len(terms) : terms[k].coeff.num # 0

WellFormed(p) ==
    /\ StrictlyDescending(p.head)
    /\ NoDuplicateDegree(p.head)
    /\ NoZeroCoefficient(p.head)

\* The same degrees in the same order, with equal rational coefficients.
SameTerms(x, y) ==
    /\ Len(x.head) = Len(y.head)
    /\ \A k \in 1..Len(x.head) :
          /\ x.head[k].degree = y.head[k].degree
          /\ REq(Rat(x.head[k].coeff), Rat(y.head[k].coeff))

\* x + y and x * y as __add__ and __mul__ compute them, on a heap of their own.
Sum(x, y) ==
    LET m == add([heap |-> <<x, y>>, log |-> {}], 1, 2) IN m.heap[Newest(m)]

Product(x, y) ==
    LET m == mul([heap |-> <<x, y>>, log |-> {}], 1, 2) IN m.heap[Newest(m)]

\* A public call has returned or raised.
Finished(op) == frame.pc = "idle" /\ last.op = op

Max(x, y) == IF x > y THEN x ELSE y

\* C1: every Polynomial object, the operators' results and their
\* temporaries, the quotient and the remainder of a division, and the
\* object under construction after each single call of the insert, holds
\* its terms in strictly descending degree order, with no degree twice and
\* no zero coefficient.
C1_TermsInvariant ==
    /\ \A i \in 1..Len(heap) : WellFormed(heap[i])
    /\ \A e \in log : WellFormed(e.post)

\* A product of at least two terms during whose construction an insert
\* cancelled a term already stored.
C1_Witness ==
    /\ Finished("mul")
    /\ Len(heap[last.out[1]].head) >= 2
    /\ \E e \in log : Len(e.post.head) < Len(e.pre.head)

\* C2: when divmod returns (quotient, remainder) for a non-zero divisor,
\* divisor * quotient + remainder has the dividend's terms with equal
\* rational coefficients, and the remainder is zero or of degree below
\* the divisor's.
C2_DivisionPostcondition ==
    (Finished("divmod") /\ last.err = "none") =>
        LET dividend  == last.before[1]
            divisor   == last.before[2]
            quotient  == heap[last.out[1]]
            remainder == heap[last.out[2]]
        IN  /\ SameTerms(Sum(Product(divisor, quotient), remainder), dividend)
            /\ is_zero(remainder) \/ degree(remainder) < degree(divisor)

\* A division that returned a quotient of two or more terms, one of them
\* not an integer, and a remainder that is not zero.
C2_Witness ==
    /\ Finished("divmod")
    /\ last.err = "none"
    /\ ~is_zero(heap[last.out[2]])
    /\ Len(heap[last.out[1]].head) >= 2
    /\ \E k \in 1..Len(heap[last.out[1]].head) :
          heap[last.out[1]].head[k].coeff.den > 1

\* C3 as stated: the long-division loop makes at most
\* degree(dividend) - degree(divisor) + 1 passes.
C3_PassesAtMostDegreeDifferencePlusOne ==
    frame.pc = "loop" =>
        frame.iters <= degree(heap[frame.self]) - degree(heap[frame.other]) + 1

\* C3 as amended: each pass of the long-division loop leaves the remainder
\* zero or of strictly smaller degree than before it, and the loop makes at
\* most max(0, degree(dividend) - degree(divisor) + 1) passes.
C3_LoopTerminates ==
    frame.pc = "loop" =>
        /\ frame.iters > 0 =>
              \/ is_zero(heap[frame.r])
              \/ degree(heap[frame.r]) < degree(heap[frame.r_was])
        /\ frame.iters <=
              Max(0, degree(heap[frame.self]) - degree(heap[frame.other]) + 1)

\* The loop after its third pass, the most a dividend of degree 2 allows.
C3_Witness ==
    /\ frame.pc = "loop"
    /\ frame.iters = 3
    /\ degree(heap[frame.self]) - degree(heap[frame.other]) + 1 = 3

\* C4: for a non-zero b, a / b raises ValueError exactly when the remainder
\* divmod(a, b) returns is not zero, and returns nothing then; otherwise it
\* returns the quotient divmod(a, b) returns.
C4_ExactnessGate ==
    (Finished("truediv") /\ ~is_zero(last.before[2])) =>
        LET d == divmod_loop(divmod_enter([heap |-> last.before, log |-> {}], 1, 2))
            quotient  == d.m.heap[d.q]
            remainder == d.m.heap[d.r]
        IN  /\ (last.err = "ValueError") <=> ~is_zero(remainder)
            /\ ~is_zero(remainder) => last.out = <<>>
            /\ is_zero(remainder) =>
                  /\ last.err = "none"
                  /\ Len(last.out) = 1
                  /\ heap[last.out[1]] = quotient

\* An exact division refused: the dividend is not zero and the division
\* leaves a remainder.
C4_Witness ==
    /\ Finished("truediv")
    /\ last.err = "ValueError"
    /\ ~is_zero(last.before[1])

\* C5: divmod and / with the zero polynomial as divisor raise
\* ZeroDivisionError whatever the dividend, return neither a quotient nor a
\* remainder, and leave both operands as they were; the long-division
\* loop is never entered with a zero divisor.
C5_DivisionByZero ==
    /\ frame.pc = "loop" => ~is_zero(heap[frame.other])
    /\ (last.op \in {"divmod", "truediv"} /\ is_zero(last.before[2])) =>
          /\ frame.pc = "idle"
          /\ last.err = "ZeroDivisionError"
          /\ last.out = <<>>
          /\ \A k \in 1..2 : heap[last.args[k]] = last.before[k]

\* The zero polynomial divided by the zero polynomial.
C5_Witness ==
    /\ last.op \in {"divmod", "truediv"}
    /\ last.err = "ZeroDivisionError"
    /\ is_zero(last.before[1])
    /\ is_zero(last.before[2])

\* C6: the operands of the last call of add, neg, sub, mul, divmod or /
\* hold the terms they held when the call was made, while the call runs
\* and after it has returned or raised, also when both operands are the
\* same object.
C6_OperandsUnchanged ==
    \A k \in 1..Len(last.args) : heap[last.args[k]] = last.before[k]

\* p - p for a p that is not zero.
C6_Witness ==
    /\ Finished("sub")
    /\ last.args[1] = last.args[2]
    /\ ~is_zero(last.before[1])

\* C7: a + b holds a term of degree d exactly when the coefficients of a
\* and b at d (0 for a missing term) do not sum to zero, that term's
\* coefficient is their sum, and a term whose degree only one operand
\* holds is carried over as it is.
C7_AddIsTermwiseSum ==
    Finished("add") =>
        LET a   == last.before[1]
            b   == last.before[2]
            res == heap[last.out[1]]
        IN  \A d \in DegreesOf(a) \cup DegreesOf(b) \cup DegreesOf(res) :
               LET s  == RAdd(Coef(a, d), Coef(b, d))
                   at == TermsOfDegree(res.head, d)
               IN  /\ Len(at) = (IF RIsZero(s) THEN 0 ELSE 1)
                   /\ Len(at) = 1 => REq(Rat(at[1].coeff), s)
                   /\ (d \in DegreesOf(a) /\ d \notin DegreesOf(b)) =>
                          at = TermsOfDegree(a.head, d)
                   /\ (d \in DegreesOf(b) /\ d \notin DegreesOf(a)) =>
                          at = TermsOfDegree(b.head, d)

\* A sum in which one degree cancels, one degree is merged and one degree
\* comes from a single operand.
C7_Witness ==
    /\ Finished("add")
    /\ LET a   == last.before[1]
           b   == last.before[2]
           res == heap[last.out[1]]
       IN  /\ \E d \in DegreesOf(a) \cap DegreesOf(b) : d \notin DegreesOf(res)
           /\ \E d \in DegreesOf(a) \cap DegreesOf(b) : d \in DegreesOf(res)
           /\ \E d \in DegreesOf(res) : d \notin DegreesOf(a) \cap DegreesOf(b)

\* C8: a * b holds a term of degree d exactly when the sum of ca * cb over
\* the terms (ca, da) of a and (cb, db) of b with da + db = d is not zero,
\* and that term's coefficient is this sum.
C8_MulIsCrossProduct ==
    Finished("mul") =>
        LET a   == last.before[1]
            b   == last.before[2]
            res == heap[last.out[1]]
            ds  == {x + y : x \in DegreesOf(a), y \in DegreesOf(b)}
        IN  \A d \in ds \cup DegreesOf(res) :
               LET s  == ProductCoef(a, b, d)
                   at == TermsOfDegree(res.head, d)
               IN  /\ Len(at) = (IF RIsZero(s) THEN 0 ELSE 1)
                   /\ Len(at) = 1 => REq(Rat(at[1].coeff), s)

\* A product of two two-term polynomials in which two products land on
\* one degree and cancel.
C8_Witness ==
    /\ Finished("mul")
    /\ Len(last.before[1].head) >= 2
    /\ Len(last.before[2].head) >= 2
    /\ \E x \in DegreesOf(last.before[1]), y \in DegreesOf(last.before[2]) :
          x + y \notin DegreesOf(heap[last.out[1]])

\* The usage example: p = 3x^3 - 2x^2 + 1 and q = x - 1, the quotient
\* 3x^2 + x - 1 its comments expect, and the quotient 3x^2 + x + 1 and
\* remainder 2 of the long division.
ExampleP == [head |-> <<Term(PyInt(3), 3), Term(PyInt(-2), 2), Term(PyInt(1), 0)>>,
             size |-> 3]

ExampleQ == [head |-> <<Term(PyInt(1), 1), Term(PyInt(-1), 0)>>, size |-> 2]

ExampleQuotientExpected ==
    [head |-> <<Term(PyInt(3), 2), Term(PyInt(1), 1), Term(PyInt(-1), 0)>>,
     size |-> 3]

ExampleQuotient ==
    [head |-> <<Term(PyInt(3), 2), Term(PyInt(1), 1), Term(PyInt(1), 0)>>,
     size |-> 3]

ExampleRemainder == [head |-> <<Term(PyInt(2), 0)>>, size |-> 1]

Built == IF frame.pc = "init" THEN heap[frame.self] ELSE heap[last.out[1]]

\* C10: a call of the insert with a zero coefficient changes nothing; any
\* other call leaves the terms of every other degree as they were, in
\* their order, and leaves at its own degree the single term whose
\* coefficient is the old coefficient there (none: the new one alone) plus
\* the new one, or no term when that sum is zero, at the place that keeps
\* the degrees strictly descending.  So from_tuples(tuples) holds, after
\* each tuple and when it returns, at each degree the sum of the
\* coefficients given for that degree, and holds a term there only when
\* the sum is not zero.
C10_InsertContract ==
    /\ \A e \in log :
          LET old == TermsOfDegree(e.pre.head, e.degree)
              new == TermsOfDegree(e.post.head, e.degree)
              s   == RAdd(Coef(e.pre, e.degree), Rat(e.coeff))
          IN  /\ CIsZero(e.coeff) => e.post = e.pre
              /\ TermsNotOfDegree(e.post.head, e.degree)
                    = TermsNotOfDegree(e.pre.head, e.degree)
              /\ Len(new) = (IF RIsZero(s) THEN 0 ELSE 1)
              /\ Len(new) = 1 => REq(Rat(new[1].coeff), s)
              /\ (old = <<>> /\ ~CIsZero(e.coeff)) => new = <<Term(e.coeff, e.degree)>>
              /\ StrictlyDescending(e.post.head)
    /\ last.op = "from_tuples" =>
          /\ DegreesOf(Built) \subseteq Degrees
          /\ \A d \in Degrees :
                LET at == TermsOfDegree(Built.head, d)
                IN  /\ Len(at) = (IF RIsZero(last.given[d]) THEN 0 ELSE 1)
                    /\ Len(at) = 1 => REq(Rat(at[1].coeff), last.given[d])

\* The constructor after three tuples: the second was put after the first,
\* and the third has cancelled the second, which is not the head.
C10_Witness ==
    /\ frame.pc = "init"
    /\ frame.iters = 3
    /\ Len(Built.head) = 1
    /\ \E e \in log :
          /\ Len(e.pre.head) = 2
          /\ e.pre.head[2].degree = e.degree
          /\ e.post.head = <<e.pre.head[1]>>

====
